---- MODULE Spec2Model ----
(***************************************************************************)
(* sample-tip-dates-in-BEAUti-xml.py: a script that reads a BEAUti .xml    *)
(* file, extracts the tree id and the dated taxa, and rewrites the file    *)
(* line by line, inserting a prior, a logger entry and an operator for     *)
(* every taxon at three anchor lines.                                      *)
(*                                                                         *)
(* Text is modelled as a sequence of atoms.  An atom is a string standing  *)
(* for a run of characters: the newline character, a literal piece of one  *)
(* of the script's string literals, a substituted value (taxon id, tree    *)
(* id, formatted number), or a piece of the input file.  Concatenation of  *)
(* text is concatenation of sequences; the string literals of the source   *)
(* are cut into atoms at the boundaries of attribute values, so that an    *)
(* attribute value can be read back from the generated text.               *)
(***************************************************************************)
EXTENDS Integers, Sequences, FiniteSets, TLC

VARIABLES argv, fs, pc, message, args, xmlContents, treeID, dateSection, taxonList,
          xmlContentsList, i, outFile

vars == <<argv, fs, pc, message, args, xmlContents, treeID, dateSection, taxonList,
          xmlContentsList, i, outFile>>

(***************************************************************************)
(* Bounds of the model.                                                    *)
(***************************************************************************)
\* lines of the part of the input file that follows the tree and date sections
MaxLines == 3
\* dated taxa in the date section of the input file
MaxTaxa == 2
\* lines of the sequence filter file
MaxFilter == 2

(***************************************************************************)
(* Atoms of the input file.                                                *)
(***************************************************************************)
NL == "\n"
Text == "<data/>"
PriorAnchor == "<distribution id=\"prior\" spec=\"util.CompoundDistribution\">"
LoggerAnchor == "<logger id=\"tracelog\""
RunAnchor == "</run>"
TreeOpen == "<tree id=\""
Quote == "\""
BackwardMarker == "traitname=\"date-backward\">"
ForwardMarker == "traitname=\"date-forward\">"
LessThan == "<"

\* taxon ids (they match [\w\-]+) and tree ids (they match [\w:.-]+)
TaxonIds == {"A", "B", "C"}
TreeIds == {"Tree.t:run1", "Tree.t:run2"}
\* atoms made only of characters of the class [\w=.\-\s,]
NumberAtoms == {"1.0", "2.0"}
SpaceAtoms == {NL, " "}
DateClassAtoms == TaxonIds \cup NumberAtoms \cup SpaceAtoms \cup {"=", ","}

(***************************************************************************)
(* Helpers on sequences of atoms.                                          *)
(***************************************************************************)
Contains(s, a) == \E k \in 1..Len(s) : s[k] = a

\* the positions of atom a in s
Positions(s, a) == {k \in 1..Len(s) : s[k] = a}

\* the members of a set of numbers in increasing order
Sorted(S) ==
    LET rank == [k \in S |-> Cardinality({m \in S : m <= k})]
    IN [j \in 1..Cardinality(S) |-> CHOOSE k \in S : rank[k] = j]

\* str.split('\n'): the pieces between newline characters, empty pieces kept
Split(s) ==
    LET nls == Sorted(Positions(s, NL))
        n == Len(nls)
        cut == [j \in 0..(n + 1) |-> IF j = 0 THEN 0 ELSE IF j = n + 1 THEN Len(s) + 1 ELSE nls[j]]
    IN [j \in 1..(n + 1) |-> SubSeq(s, cut[j - 1] + 1, cut[j] - 1)]

\* str.splitlines(): as split on line ends, but a final line end opens no line
SplitLines(s) ==
    IF s = <<>> THEN <<>>
    ELSE IF s[Len(s)] = NL THEN Split(SubSeq(s, 1, Len(s)-1))
    ELSE Split(s)

\* str.lower() on the strings the model passes to it
Lower(s) ==
    CASE s = ".XML" -> ".xml"
      [] s = "POISSON" -> "poisson"
      [] OTHER -> s

\* float(): the value of a command-line number, in tenths
Float(s) ==
    CASE s = "0" -> 0
      [] s = "0.0" -> 0
      [] s = "1" -> 10
      [] s = "1.0" -> 10
      [] s = "2.5" -> 25
      [] s = "-1" -> 0 - 10
      [] s = "3" -> 30

\* str() of a float given in tenths
Str(x) ==
    CASE x = 0 -> "0.0"
      [] x = 10 -> "1.0"
      [] x = 20 -> "2.0"
      [] x = 25 -> "2.5"
      [] x = 30 -> "3.0"
      [] x = 0 - 10 -> "-1.0"

(***************************************************************************)
(* Command line (argparse) and the tables built from it.                   *)
(***************************************************************************)
Choices == {"exponential", "poisson", "log-normal", "beta", "gamma",
            "inverse-gamma", "laplace", "uniform", "normal", "1/x"}
TimeChoices == {"present", "past"}

\* an option left off the command line
Omitted == ""

OptionValue(given, default) == IF given = Omitted THEN default ELSE given

NoArgs == [inputExt |-> "", sequences |-> "", priorDistribution |-> "",
           parameter1 |-> 0, parameter2 |-> 0, parametero |-> 0,
           timeDirection |-> ""]

beastDistributionsDict ==
    [d \in Choices \ {"poisson"} |->
        CASE d = "exponential" -> "Exponential"
          [] d = "log-normal" -> "LogNormal"
          [] d = "gamma" -> "Gamma"
          [] d = "beta" -> "Beta"
          [] d = "inverse-gamma" -> "InverseGamma"
          [] d = "laplace" -> "LaplaceDistribution"
          [] d = "normal" -> "Normal"
          [] d = "1/x" -> "OneOnX"
          [] d = "uniform" -> "Uniform"]

\* the parameters of each distribution, as <<name, value>> in the dict's order
parameterDict ==
    [d \in Choices |->
        CASE d = "exponential" -> << <<"mean", args.parameter1>> >>
          [] d = "log-normal" -> << <<"M", args.parameter1>>, <<"S", args.parameter2>> >>
          [] d = "gamma" -> << <<"alpha", args.parameter1>>, <<"beta", args.parameter2>> >>
          [] d = "beta" -> << <<"alpha", args.parameter1>>, <<"beta", args.parameter2>> >>
          [] d = "inverse-gamma" -> << <<"alpha", args.parameter1>>, <<"beta", args.parameter2>> >>
          [] d = "poisson" -> << <<"lambda", args.parameter1>> >>
          [] d = "laplace" -> << <<"mu", args.parameter1>>, <<"scale", args.parameter2>> >>
          [] d = "1/x" -> << <<"offset", args.parametero>> >>
          [] d = "normal" -> << <<"mean", args.parameter1>>, <<"sigma", args.parameter2>> >>
          [] d = "uniform" -> << <<"lower", args.parameter1>>, <<"upper", args.parameter2>> >>]

(***************************************************************************)
(* The three regular-expression extractions.                               *)
(***************************************************************************)
\* atoms made only of characters of the class [\w:.-]
TreeIdClassAtoms == TreeIds \cup TaxonIds \cup NumberAtoms

\* positions where <tree id="([\w:.-]+)" matches
TreeMatches(s) ==
    {k \in 1..(Len(s) - 2) :
        s[k] = TreeOpen /\ s[k+1] \in TreeIdClassAtoms /\ s[k+2] = Quote}

Least(S) == CHOOSE k \in S : \A j \in S : k <= j

\* the end of the longest run of atoms of class C that starts right after position k
RunEnd(s, k, C) ==
    CHOOSE e \in (k+1)..(Len(s)+1) :
        /\ \A j \in (k+1)..(e-1) : s[j] \in C
        /\ (e = Len(s) + 1 \/ s[e] \notin C)

\* positions where marker\s*([\w=.\-\s,]*)< matches
DateMatches(s, marker) ==
    {k \in 1..Len(s) :
        /\ s[k] = marker
        /\ RunEnd(s, k, DateClassAtoms) <= Len(s)
        /\ s[RunEnd(s, k, DateClassAtoms)] = LessThan}

\* group 1 of the match at position k: \s* has taken the leading white space
DateGroup(s, k) ==
    SubSeq(s, RunEnd(s, k, SpaceAtoms), RunEnd(s, k, DateClassAtoms) - 1)

DateMarker(timeDirection) ==
    IF timeDirection = "present" THEN BackwardMarker ELSE ForwardMarker

\* re.findall(r'([\w\-]*)=', dateSection)
FindAllIds(ds) ==
    LET f[k \in 0..Len(ds)] ==
            IF k = 0 THEN <<>>
            ELSE IF ds[k] = "="
                 THEN Append(f[k-1], IF k > 1 /\ ds[k-1] \in TaxonIds THEN ds[k-1] ELSE "")
                 ELSE f[k-1]
    IN f[Len(ds)]

\* one line of the sequence file as an id
LineId(line) == IF line = <<>> THEN "" ELSE line[1]

Range(s) == {s[k] : k \in 1..Len(s)}

sequenceList == [k \in 1..Len(SplitLines(fs.seqText)) |-> LineId(SplitLines(fs.seqText)[k])]

(***************************************************************************)
(* The generated text, for one taxon.                                      *)
(***************************************************************************)
\* the loop of lines 264-268
parameterLines(taxon) ==
    LET params == parameterDict[args.priorDistribution]
        f[k \in 0..Len(params)] ==
            IF k = 0 THEN <<>>
            ELSE f[k-1] \o
                 <<"\t\t    <parameter id=\"", "RealParameter.", params[k][1], ".", taxon,
                   "\" estimate=\"false\"", " name=\"", params[k][1], "\">",
                   Str(params[k][2]), "</parameter>", NL>>
    IN f[Len(params)]

\* a plausible slip: the Poisson block takes the configured offset like the others
distributionSectionConfiguredOffset(taxon) ==
    IF args.priorDistribution # "poisson"
    THEN <<"\t\t<", beastDistributionsDict[args.priorDistribution], " id=\"",
           beastDistributionsDict[args.priorDistribution], ".", taxon,
           "\" name=\"distr\"", " offset=\"", Str(args.parametero), "\">", NL>>
         \o parameterLines(taxon)
         \o <<"\t\t</", beastDistributionsDict[args.priorDistribution], ">", NL>>
    ELSE <<"\t\t<distr id=\"", "Poisson.", taxon,
           "\" spec=\"beast.math.distributions.Poisson\"", " offset=\"",
           Str(args.parametero), "\">", NL>>
         \o parameterLines(taxon)
         \o <<"\t\t</distr>", NL>>

distributionSection(taxon) ==
    IF args.priorDistribution # "poisson"
    THEN <<"\t\t<", beastDistributionsDict[args.priorDistribution], " id=\"",
           beastDistributionsDict[args.priorDistribution], ".", taxon,
           "\" name=\"distr\"", " offset=\"", Str(args.parametero), "\">", NL>>
         \o parameterLines(taxon)
         \o <<"\t\t</", beastDistributionsDict[args.priorDistribution], ">", NL>>
    ELSE <<"\t\t<distr id=\"", "Poisson.", taxon,
           "\" spec=\"beast.math.distributions.Poisson\"", " offset=\"", "1.0", "\">", NL>>
         \o parameterLines(taxon)
         \o <<"\t\t</distr>", NL>>

\* what one pass of the loop of line 258 adds to newLine
PriorFragment(taxon) ==
    <<"\t    <distribution id=\"", "tip.", taxon, ".prior",
      "\"spec=\"beast.math.distributions.MRCAPrior\" tipsonly=\"true\"",
      " tree=\"@", treeID, "\">", NL,
      "\t\t<taxonset id=\"", " tip.", taxon, "\" spec=\"TaxonSet\">", NL,
      "\t\t    <taxon id=\"", taxon, "\" spec=\"Taxon\"/>", NL,
      "\t\t</taxonset>", NL>>
    \o distributionSection(taxon)
    \o <<"\t    </distribution>", NL>>

\* what one pass of the loop of line 296 adds to newLine
LoggerFragment(taxon) ==
    <<"\t<log idref=\"@", "tip.", taxon, ".prior", "\"/>", NL>>

\* what one pass of the loop of line 303 adds to newLine
OperatorFragment(taxon) ==
    <<"<operator id=\"", "TipDatesRandomWalker.", taxon, Quote, NL,
      "windowSize=\"1\"", NL,
      "spec=\"TipDatesRandomWalker\"", NL,
      "taxonset=\"@", "tip.", taxon, Quote, NL,
      "tree=\"@", treeID, Quote, NL,
      "weight=\"1.0\"/>", NL>>

\* newLine after the loop over taxonList, for each of the three anchors
PriorNewLine ==
    LET f[k \in 0..Len(taxonList)] ==
            IF k = 0 THEN <<>> ELSE f[k-1] \o PriorFragment(taxonList[k])
    IN f[Len(taxonList)]

LoggerNewLine ==
    LET f[k \in 0..Len(taxonList)] ==
            IF k = 0 THEN <<>> ELSE f[k-1] \o LoggerFragment(taxonList[k])
    IN f[Len(taxonList)]

OperatorNewLine ==
    LET f[k \in 0..Len(taxonList)] ==
            IF k = 0 THEN <<>> ELSE f[k-1] \o OperatorFragment(taxonList[k])
    IN f[Len(taxonList)]

\* a plausible slip: the new text is joined to the anchor line with no newline between
EditedLineSameLine(line) ==
    IF Contains(line, PriorAnchor) THEN line \o PriorNewLine
    ELSE IF Contains(line, LoggerAnchor) THEN line \o LoggerNewLine
    ELSE IF Contains(line, RunAnchor) THEN OperatorNewLine \o line
    ELSE line

\* a plausible slip: three separate tests in place of the if/elif chain
EditedLineSeparateTests(line) ==
    LET l1 == IF Contains(line, PriorAnchor) THEN line \o <<NL>> \o PriorNewLine ELSE line
        l2 == IF Contains(l1, LoggerAnchor) THEN l1 \o <<NL>> \o LoggerNewLine ELSE l1
    IN IF Contains(l2, RunAnchor) THEN OperatorNewLine \o l2 ELSE l2

\* the value of line when line 313 writes it
EditedLine(line) ==
    IF Contains(line, PriorAnchor) THEN line \o <<NL>> \o PriorNewLine
    ELSE IF Contains(line, LoggerAnchor) THEN line \o <<NL>> \o LoggerNewLine
    ELSE IF Contains(line, RunAnchor) THEN OperatorNewLine \o line
    ELSE line

(***************************************************************************)
(* The runs the model starts from: a command line and the files it names.  *)
(***************************************************************************)
IdAt(k) == CASE k % 3 = 1 -> "A" [] k % 3 = 2 -> "B" [] OTHER -> "C"

SeqsUpTo(S, n) == UNION {[1..m -> S] : m \in 0..n}

\* lines joined by newline characters
Join(lines) ==
    LET f[k \in 0..Len(lines)] ==
            IF k = 0 THEN <<>>
            ELSE IF k = 1 THEN lines[1]
            ELSE f[k-1] \o <<NL>> \o lines[k]
    IN f[Len(lines)]

TreeDecl(id) == <<TreeOpen, id, Quote, " name=\"stateNode\">", NL>>

TreePart(tree) ==
    CASE tree = "none" -> <<>>
      [] tree = "one" -> TreeDecl("Tree.t:run1")
      [] tree = "two" -> TreeDecl("Tree.t:run2") \o TreeDecl("Tree.t:run1")
      [] tree = "bad" -> TreeDecl("Tree t")

\* id=value assignments, one per line, separated by commas
Assignments(list) ==
    LET f[k \in 0..Len(list)] ==
            IF k = 0 THEN <<>>
            ELSE (IF k = 1 THEN <<>> ELSE f[k-1] \o <<",", NL>>) \o <<list[k], "=", "1.0">>
    IN f[Len(list)]

DateBlock(marker, list) ==
    <<marker, NL>> \o Assignments(list) \o <<LessThan, "taxa/>", NL>>

DatePart(dates, list) ==
    CASE dates = "none" -> <<>>
      [] dates = "backward" -> DateBlock(BackwardMarker, list)
      [] dates = "forward" -> DateBlock(ForwardMarker, list)
      [] dates = "both" -> DateBlock(BackwardMarker, list) \o DateBlock(ForwardMarker, <<"C">>)
      [] dates = "slashes" -> <<BackwardMarker, "A", "=", "2016/06/27", LessThan, "taxa/>", NL>>

InputText(tree, dates, list, body) == TreePart(tree) \o DatePart(dates, list) \o Join(body)

LineKinds == {<<>>, <<Text>>, <<" ", PriorAnchor>>, <<Text, LoggerAnchor, Text>>,
              <<RunAnchor>>, <<LoggerAnchor, RunAnchor>>, <<PriorAnchor, LoggerAnchor, Text>>}

UsualBody == << <<Text>>, <<" ", PriorAnchor>>, <<Text, LoggerAnchor, Text>>, <<RunAnchor>>, <<>> >>

\* the text of a sequence file with one id per line
FilterText(list, finalNL) ==
    LET f[k \in 0..Len(list)] ==
            IF k = 0 THEN <<>> ELSE f[k-1] \o <<list[k], NL>>
    IN IF finalNL \/ list = <<>> THEN f[Len(list)]
       ELSE SubSeq(f[Len(list)], 1, Len(f[Len(list)]) - 1)

Cmd(ext, seqs, d, p1, p2, po, t) ==
    [inputExt |-> ext, sequences |-> seqs, d |-> d, p1 |-> p1, p2 |-> p2, po |-> po, t |-> t]

Files(readable, text, seqReadable, seqText) ==
    [inputReadable |-> readable, inputText |-> text,
     seqReadable |-> seqReadable, seqText |-> seqText]

SeqFiles ==
    {[readable |-> FALSE, text |-> <<>>]}
    \cup {[readable |-> TRUE, text |-> FilterText(l, b)] :
            l \in SeqsUpTo(TaxonIds, MaxFilter), b \in BOOLEAN}

\* every body, all taxa in file order, default options
RewriteRuns ==
    {<<Cmd(".xml", Omitted, Omitted, Omitted, Omitted, Omitted, Omitted),
       Files(TRUE, InputText("one", "backward", [k \in 1..n |-> IdAt(k)], body),
             FALSE, <<>>)>> :
        n \in 0..MaxTaxa, body \in SeqsUpTo(LineKinds, MaxLines)}

\* the failures before the date section is looked for
EarlyRuns ==
    {<<Cmd(ext, Omitted, Omitted, Omitted, Omitted, Omitted, Omitted),
       Files(readable, InputText(tree, "backward", <<"A", "B">>, UsualBody), FALSE, <<>>)>> :
        ext \in {".xml", ".XML", ".txt"}, readable \in BOOLEAN,
        tree \in {"none", "one", "two", "bad"}}

\* date sections of either direction, and the direction asked for
DateRuns ==
    {<<Cmd(".xml", Omitted, Omitted, Omitted, Omitted, Omitted, t),
       Files(TRUE, InputText("one", dates, list, UsualBody), FALSE, <<>>)>> :
        t \in {Omitted, "present", "past", "future"},
        dates \in {"none", "backward", "forward", "both", "slashes"},
        list \in SeqsUpTo({"A", "B"}, MaxTaxa)}

\* sequence files
FilterRuns ==
    {<<Cmd(".xml", "ids.txt", Omitted, Omitted, Omitted, Omitted, Omitted),
       Files(TRUE, InputText("one", "backward", list, UsualBody), f.readable, f.text)>> :
        list \in SeqsUpTo({"A", "B"}, MaxTaxa), f \in SeqFiles}

\* distributions and their parameters
DistributionRuns ==
    {<<Cmd(".xml", Omitted, d, p1, Omitted, po, Omitted),
       Files(TRUE, InputText("one", "backward", <<"A", "B">>, UsualBody), FALSE, <<>>)>> :
        d \in Choices \cup {Omitted, "POISSON", "cauchy"},
        p1 \in {Omitted, "3"},
        po \in {Omitted, "0", "1", "2.5", "-1"}}

Runs == RewriteRuns \cup EarlyRuns \cup DateRuns \cup FilterRuns \cup DistributionRuns

(***************************************************************************)
(* The script, statement by statement.                                     *)
(***************************************************************************)
\* the diagnostics of the fatal ends
UsageMessage == "usage"
ExtensionMessage == "Not a .xml file."
InputMessage == "Input file not found."
TreeMessage == "Failed to find tree id in BEAUti .xml file."
DatesMessage == "Could not find any dated sequences in BEAUti .xml file."
UnknownIdsMessage == "Provided sequence file contained sequence id's which are not present"
SequenceFileMessage == "Failed to open input sequence file."

\* a diagnostic, then sys.exit() (or the uncaught exception of line 156)
Fail(msg) == pc' = "fatal" /\ message' = msg

Init ==
    /\ \E run \in Runs : argv = run[1] /\ fs = run[2]
    /\ pc = "parse"
    /\ message = ""
    /\ args = NoArgs
    /\ xmlContents = <<>>
    /\ treeID = ""
    /\ dateSection = <<>>
    /\ taxonList = <<>>
    /\ xmlContentsList = <<>>
    /\ i = 0
    /\ outFile = <<>>

\* lines 41-104: argparse; a value outside the choices ends the run
ParseArgs ==
    /\ pc = "parse"
    /\ LET d == Lower(OptionValue(argv.d, "exponential"))
           t == OptionValue(argv.t, "present")
       IN IF d \in Choices /\ t \in TimeChoices
          THEN /\ args' = [inputExt |-> argv.inputExt,
                           sequences |-> argv.sequences,
                           priorDistribution |-> d,
                           parameter1 |-> IF argv.p1 = Omitted THEN 10 ELSE Float(argv.p1),
                           parameter2 |-> IF argv.p2 = Omitted THEN 20 ELSE Float(argv.p2),
                           parametero |-> IF argv.po = Omitted THEN 0 ELSE Float(argv.po),
                           timeDirection |-> t]
               /\ pc' = "extension"
               /\ UNCHANGED message
          ELSE /\ Fail(UsageMessage)
               /\ UNCHANGED args
    /\ UNCHANGED <<argv, fs, xmlContents, treeID, dateSection, taxonList,
                   xmlContentsList, i, outFile>>

\* lines 152-156
CheckExtension ==
    /\ pc = "extension"
    /\ IF Lower(args.inputExt) = ".xml"
       THEN pc' = "read" /\ UNCHANGED message
       ELSE Fail(ExtensionMessage)
    /\ UNCHANGED <<argv, fs, args, xmlContents, treeID, dateSection, taxonList,
                   xmlContentsList, i, outFile>>

\* lines 164-169
ReadInput ==
    /\ pc = "read"
    /\ IF fs.inputReadable
       THEN xmlContents' = fs.inputText /\ pc' = "tree" /\ UNCHANGED message
       ELSE Fail(InputMessage) /\ UNCHANGED xmlContents
    /\ UNCHANGED <<argv, fs, args, treeID, dateSection, taxonList,
                   xmlContentsList, i, outFile>>

\* a plausible slip: the message is shown but the run goes on
FindTreeIDNoExit ==
    /\ pc = "tree"
    /\ IF TreeMatches(xmlContents) # {}
       THEN treeID' = xmlContents[Least(TreeMatches(xmlContents)) + 1]
       ELSE UNCHANGED treeID
    /\ pc' = "dates"
    /\ message' = IF TreeMatches(xmlContents) # {} THEN message ELSE TreeMessage
    /\ UNCHANGED <<argv, fs, args, xmlContents, dateSection, taxonList,
                   xmlContentsList, i, outFile>>

\* lines 172-177
FindTreeID ==
    /\ pc = "tree"
    /\ IF TreeMatches(xmlContents) # {}
       THEN /\ treeID' = xmlContents[Least(TreeMatches(xmlContents)) + 1]
            /\ pc' = "dates"
            /\ UNCHANGED message
       ELSE Fail(TreeMessage) /\ UNCHANGED treeID
    /\ UNCHANGED <<argv, fs, args, xmlContents, dateSection, taxonList,
                   xmlContentsList, i, outFile>>

\* a plausible slip: the backward marker whatever the direction asked for
SearchedMarkerBackwardOnly == BackwardMarker

\* the marker line 182 or line 184 searches for
SearchedMarker == DateMarker(args.timeDirection)

\* lines 180-191
FindDateSection ==
    /\ pc = "dates"
    /\ IF DateMatches(xmlContents, SearchedMarker) # {}
       THEN /\ dateSection' = DateGroup(xmlContents, Least(DateMatches(xmlContents, SearchedMarker)))
            /\ pc' = "taxa"
            /\ UNCHANGED message
       ELSE Fail(DatesMessage) /\ UNCHANGED dateSection
    /\ UNCHANGED <<argv, fs, args, xmlContents, treeID, taxonList,
                   xmlContentsList, i, outFile>>

\* line 194
ExtractTaxa ==
    /\ pc = "taxa"
    /\ taxonList' = FindAllIds(dateSection)
    /\ pc' = "filter"
    /\ UNCHANGED message
    /\ UNCHANGED <<argv, fs, args, xmlContents, treeID, dateSection,
                   xmlContentsList, i, outFile>>

\* a plausible slip: the taxa of the file that the sequence file names, in file order
KeptTaxaInFileOrder ==
    LET f[k \in 0..Len(taxonList)] ==
            IF k = 0 THEN <<>>
            ELSE IF taxonList[k] \in Range(sequenceList)
                 THEN Append(f[k-1], taxonList[k]) ELSE f[k-1]
    IN f[Len(taxonList)]

\* a plausible slip: the subset test the wrong way round
FilterAcceptedReversed == Range(taxonList) \subseteq Range(sequenceList)

\* line 202
FilterAccepted == Range(sequenceList) \subseteq Range(taxonList)

\* line 203: the list that replaces taxonList
KeptTaxa == sequenceList

\* lines 197-211
FilterSequences ==
    /\ pc = "filter"
    /\ IF args.sequences # ""
       THEN IF fs.seqReadable
            THEN IF FilterAccepted
                 THEN taxonList' = KeptTaxa /\ pc' = "split" /\ UNCHANGED message
                 ELSE Fail(UnknownIdsMessage) /\ UNCHANGED taxonList
            ELSE Fail(SequenceFileMessage) /\ UNCHANGED taxonList
       ELSE pc' = "split" /\ UNCHANGED <<taxonList, message>>
    /\ UNCHANGED <<argv, fs, args, xmlContents, treeID, dateSection,
                   xmlContentsList, i, outFile>>

\* a plausible slip: splitlines() in place of split('\n')
SplitContentsSplitlines ==
    /\ pc = "split"
    /\ xmlContentsList' = SplitLines(xmlContents)
    /\ i' = 1
    /\ pc' = "loop"
    /\ UNCHANGED <<argv, fs, message, args, xmlContents, treeID, dateSection, taxonList, outFile>>

\* line 243
SplitContents ==
    /\ pc = "split"
    /\ xmlContentsList' = Split(xmlContents)
    /\ i' = 1
    /\ pc' = "loop"
    /\ UNCHANGED <<argv, fs, message, args, xmlContents, treeID, dateSection, taxonList, outFile>>

\* a plausible slip: empty lines are not written
RewriteLineSkippingEmpty ==
    /\ pc = "loop"
    /\ i <= Len(xmlContentsList)
    /\ outFile' = IF xmlContentsList[i] = <<>> THEN outFile
                  ELSE outFile \o EditedLine(xmlContentsList[i]) \o <<NL>>
    /\ i' = i + 1
    /\ UNCHANGED <<argv, fs, pc, message, args, xmlContents, treeID, dateSection, taxonList,
                   xmlContentsList>>

\* lines 245-313: one pass of the loop
RewriteLine ==
    /\ pc = "loop"
    /\ i <= Len(xmlContentsList)
    /\ outFile' = outFile \o EditedLine(xmlContentsList[i]) \o <<NL>>
    /\ i' = i + 1
    /\ UNCHANGED <<argv, fs, pc, message, args, xmlContents, treeID, dateSection, taxonList,
                   xmlContentsList>>

\* lines 327-333: the loop is over
Finish ==
    /\ pc = "loop"
    /\ i > Len(xmlContentsList)
    /\ pc' = "done"
    /\ UNCHANGED <<argv, fs, message, args, xmlContents, treeID, dateSection, taxonList,
                   xmlContentsList, i, outFile>>

Next ==
    \/ ParseArgs
    \/ CheckExtension
    \/ ReadInput
    \/ FindTreeID
    \/ FindDateSection
    \/ ExtractTaxa
    \/ FilterSequences
    \/ SplitContents
    \/ RewriteLine
    \/ Finish

Spec == Init /\ [][Next]_vars

(***************************************************************************)
(* Reading the run and its output back.                                    *)
(***************************************************************************)
NLCount(s) == Cardinality(Positions(s, NL))

\* the atoms that begin with the double quote that closes an attribute value
Closers == {Quote, "\">", "\"/>", "\" spec=\"TaxonSet\">", "\" spec=\"Taxon\"/>",
            "\"spec=\"beast.math.distributions.MRCAPrior\" tipsonly=\"true\"",
            "\" name=\"distr\"", "\" spec=\"beast.math.distributions.Poisson\"",
            "\" estimate=\"false\""}

\* the attribute value that the atom at position k opens
AttrAt(s, k) == SubSeq(s, k + 1, Least({e \in (k+1)..Len(s) : s[e] \in Closers}) - 1)

\* the values of every attribute that the atom opener opens, in text order
AttrValues(s, opener) ==
    LET at == Sorted(Positions(s, opener))
    IN [j \in 1..Len(at) |-> AttrAt(s, at[j])]

PriorIdOpen == "\t    <distribution id=\""
TaxonSetIdOpen == "\t\t<taxonset id=\""
PriorTreeRefOpen == " tree=\"@"
OffsetOpen == " offset=\""
LogRefOpen == "\t<log idref=\"@"
OperatorIdOpen == "<operator id=\""
TaxonSetRefOpen == "taxonset=\"@"
OperatorTreeRefOpen == "tree=\"@"

Kinds == {"prior", "logger", "operator"}

AnchorOf(kind) ==
    CASE kind = "prior" -> PriorAnchor
      [] kind = "logger" -> LoggerAnchor
      [] kind = "operator" -> RunAnchor

\* the atom that opens the id (or, for the logger, the reference) of a fragment
OpenerOf(kind) ==
    CASE kind = "prior" -> PriorIdOpen
      [] kind = "logger" -> LogRefOpen
      [] kind = "operator" -> OperatorIdOpen

\* the ids of the fragments of one kind in a text, in text order
FragmentIds(text, kind) == AttrValues(text, OpenerOf(kind))

\* the ids that the fragments of one kind carry for a list of taxa
IdsFor(kind, list) ==
    [k \in 1..Len(list) |->
        IF kind = "operator" THEN <<"TipDatesRandomWalker.", list[k]>>
        ELSE <<"tip.", list[k], ".prior">>]

FragmentCount(text) ==
    Len(FragmentIds(text, "prior")) + Len(FragmentIds(text, "logger"))
        + Len(FragmentIds(text, "operator"))

AnchorKinds(line) == {kind \in Kinds : Contains(line, AnchorOf(kind))}

NoAnchors(text) == \A kind \in Kinds : ~Contains(text, AnchorOf(kind))

\* what the last step appended to the output
Written == SubSeq(outFile', Len(outFile) + 1, Len(outFile'))

\* a pass of the rewrite loop
LoopStep == pc = "loop" /\ i' = i + 1

\* line is a whole line of text, starting at position q
LineAt(text, q, line) ==
    /\ (q = 1 \/ text[q-1] = NL)
    /\ q + Len(line) <= Len(text)
    /\ SubSeq(text, q, q + Len(line) - 1) = line
    /\ text[q + Len(line)] = NL

\* every member of lines is a whole line of text, in the order of lines
KeepsLines(lines, text) ==
    LET \* where lines[k] starts in text; 0 when it is not found
        at[k \in 0..Len(lines)] ==
            IF k = 0 THEN 0
            ELSE LET before == at[k-1]
                     from == IF k = 1 THEN 1 ELSE before + Len(lines[k-1]) + 1
                     found == {q \in from..Len(text) : LineAt(text, q, lines[k])}
                 IN IF (k > 1 /\ before = 0) \/ found = {} THEN 0 ELSE Least(found)
    IN lines = <<>> \/ at[Len(lines)] # 0

Repeat(s, n) ==
    LET f[k \in 0..n] == IF k = 0 THEN <<>> ELSE f[k-1] \o s
    IN f[n]

\* the run as the command line and the files determine it
GoodUsage ==
    /\ argv.d \in Choices \cup {Omitted, "POISSON"}
    /\ argv.t \in TimeChoices \cup {Omitted}
AskedMarker == IF argv.t = "past" THEN ForwardMarker ELSE BackwardMarker
GoodExtension == argv.inputExt \in {".xml", ".XML"}
HasTree == TreeMatches(fs.inputText) # {}
HasDates == DateMatches(fs.inputText, AskedMarker) # {}
ExtractedTaxa ==
    IF HasDates
    THEN FindAllIds(DateGroup(fs.inputText, Least(DateMatches(fs.inputText, AskedMarker))))
    ELSE <<>>
FilterGiven == argv.sequences # ""
\* no fatal condition before the sequence file is looked at
ExtractionSucceeds ==
    GoodUsage /\ GoodExtension /\ fs.inputReadable /\ HasTree /\ HasDates
FilterFits ==
    FilterGiven /\ fs.seqReadable /\ Range(sequenceList) \subseteq Range(ExtractedTaxa)
FilterMismatch ==
    FilterGiven /\ fs.seqReadable /\ ~(Range(sequenceList) \subseteq Range(ExtractedTaxa))
FatalCondition ==
    \/ ~GoodExtension
    \/ ~fs.inputReadable
    \/ ~HasTree
    \/ ~HasDates
    \/ (FilterGiven /\ ~fs.seqReadable)
    \/ FilterMismatch
Rewriting == pc \in {"split", "loop", "done"}
InputLines == Split(fs.inputText)
OutputLines == SplitLines(outFile)

(***************************************************************************)
(* C1.  With no sequence file, every pass of the rewrite loop appends to   *)
(* the output and leaves what was written before alone; a line holding     *)
(* none of the three anchors is written as it is, followed by a newline;   *)
(* at a line holding an anchor the text written holds exactly N fragments, *)
(* N the number of ids the date section yields, all of the kind of an      *)
(* anchor the line holds, one per taxon in the order of the date section.  *)
(***************************************************************************)
C1_Step ==
    (LoopStep /\ ~FilterGiven) =>
        LET line == xmlContentsList[i]
        IN /\ SubSeq(outFile', 1, Len(outFile)) = outFile
           /\ AnchorKinds(line) = {} => Written = line \o <<NL>>
           /\ AnchorKinds(line) # {} =>
                /\ FragmentCount(Written) = Len(ExtractedTaxa)
                /\ \E kind \in AnchorKinds(line) :
                      FragmentIds(Written, kind) = IdsFor(kind, ExtractedTaxa)

C1_FragmentsPerTaxon == [][C1_Step]_vars

C1_Witness ==
    /\ pc = "done"
    /\ ~FilterGiven
    /\ ExtractedTaxa = <<"A", "B">>
    /\ \A kind \in Kinds : \E k \in 1..Len(xmlContentsList) :
          AnchorKinds(xmlContentsList[k]) = {kind}
    /\ \E k \in 1..Len(xmlContentsList) :
          xmlContentsList[k] # <<>> /\ AnchorKinds(xmlContentsList[k]) = {}
    /\ \A kind \in Kinds : FragmentIds(outFile, kind) = IdsFor(kind, <<"A", "B">>)

(***************************************************************************)
(* C2.  When a sequence file is given and every id in it is among the ids  *)
(* of the date section, the run does not fail on the file, the taxon list  *)
(* used is the list of the file's lines in the file's order, and the       *)
(* fragments written at every anchor are for those ids in that order.      *)
(***************************************************************************)
C2_FilterOrder ==
    (FilterFits /\ ExtractionSucceeds) =>
        /\ pc # "fatal"
        /\ Rewriting => taxonList = sequenceList
        /\ pc = "done" =>
              \A kind \in Kinds : \E n \in 0..Len(xmlContentsList) :
                  FragmentIds(outFile, kind) = Repeat(IdsFor(kind, sequenceList), n)

C2_Witness ==
    /\ pc = "done"
    /\ FilterFits
    /\ ExtractedTaxa = <<"A", "B">>
    /\ sequenceList = <<"B", "A">>
    /\ \A kind \in Kinds : FragmentIds(outFile, kind) = IdsFor(kind, <<"B", "A">>)

(***************************************************************************)
(* C3.  When a sequence file is given and one of its ids is not among the  *)
(* ids of the date section, the run never reaches the rewrite, it ends in  *)
(* a fatal error (the unknown-ids one unless an earlier check failed), and *)
(* nothing is written to the output.                                       *)
(***************************************************************************)
C3_FilterMismatchFatal ==
    FilterMismatch =>
        /\ ~Rewriting
        /\ outFile = <<>>
        /\ (pc = "fatal" /\ ExtractionSucceeds) => message = UnknownIdsMessage

C3_Witness ==
    /\ FilterMismatch
    /\ pc = "fatal"
    /\ message = UnknownIdsMessage
    /\ taxonList = <<"A", "B">>
    /\ "C" \in Range(sequenceList)

(***************************************************************************)
(* C4.  Every prior fragment written carries one offset attribute; its     *)
(* value is "1.0" when the distribution is poisson, and the configured     *)
(* offset, as Python shows the number, for every other distribution.       *)
(***************************************************************************)
ConfiguredOffset ==
    CASE argv.po = Omitted -> "0.0"
      [] argv.po = "0" -> "0.0"
      [] argv.po = "1" -> "1.0"
      [] argv.po = "2.5" -> "2.5"
      [] argv.po = "-1" -> "-1.0"

C4_Offset ==
    pc \in {"loop", "done"} =>
        LET offsets == AttrValues(outFile, OffsetOpen)
        IN /\ Len(offsets) = Len(FragmentIds(outFile, "prior"))
           /\ \A k \in 1..Len(offsets) :
                 offsets[k] = IF args.priorDistribution = "poisson"
                              THEN <<"1.0">> ELSE <<ConfiguredOffset>>

C4_Witness ==
    /\ pc = "done"
    /\ args.priorDistribution = "poisson"
    /\ argv.po = "2.5"
    /\ AttrValues(outFile, OffsetOpen) = << <<"1.0">>, <<"1.0">> >>

(***************************************************************************)
(* C5.  Every fatal condition is found before the first write: whenever    *)
(* the output is not empty the run is in the rewrite loop or past it, the  *)
(* tree id is the one of the input and the taxon list is final; a run with *)
(* a fatal condition, and a run that has ended in a fatal error, has       *)
(* written nothing.                                                        *)
(***************************************************************************)
C5_FatalBeforeWrite ==
    /\ pc = "fatal" => outFile = <<>>
    /\ outFile # <<>> =>
          /\ pc \in {"loop", "done"}
          /\ GoodUsage
          /\ ~FatalCondition
          /\ treeID = fs.inputText[Least(TreeMatches(fs.inputText)) + 1]
          /\ taxonList = IF FilterGiven THEN sequenceList ELSE ExtractedTaxa

C5_Witness ==
    /\ pc = "fatal"
    /\ message = TreeMessage
    /\ ~HasTree
    /\ Contains(xmlContents, PriorAnchor)
    /\ outFile = <<>>

(***************************************************************************)
(* C6.  When no line of the input holds an anchor and no check fails, the  *)
(* run ends without an error and the output is the input followed by one   *)
(* newline character.                                                      *)
(***************************************************************************)
C6_CopiedWithNewline ==
    (NoAnchors(fs.inputText) /\ GoodUsage /\ ~FatalCondition) =>
        /\ pc # "fatal"
        /\ message = ""
        /\ pc = "done" => outFile = fs.inputText \o <<NL>>

\* C6 as the specification states it: the output is the input, unchanged
C6_CopiedUnchanged ==
    (NoAnchors(fs.inputText) /\ pc = "done") => outFile = fs.inputText

C6_Witness ==
    /\ pc = "done"
    /\ NoAnchors(fs.inputText)
    /\ Contains(fs.inputText, Text)
    /\ fs.inputText[Len(fs.inputText)] = NL
    /\ outFile = fs.inputText \o <<NL>>

(***************************************************************************)
(* C7.  After the rewrite the output has as many lines as the input has,   *)
(* plus the lines of the fragments written, plus one empty line for every  *)
(* line at which prior or logger fragments were written; every input line  *)
(* is a line of the output, in the input's order.                          *)
(***************************************************************************)
\* the lines of the fragments written at one input line
FragmentLinesAt(line) ==
    IF Contains(line, PriorAnchor) THEN NLCount(PriorNewLine)
    ELSE IF Contains(line, LoggerAnchor) THEN NLCount(LoggerNewLine)
    ELSE IF Contains(line, RunAnchor) THEN NLCount(OperatorNewLine)
    ELSE 0

FragmentLines(lines) ==
    LET f[k \in 0..Len(lines)] ==
            IF k = 0 THEN 0 ELSE f[k-1] + FragmentLinesAt(lines[k])
    IN f[Len(lines)]

\* the lines at which prior or logger fragments are written
AppendedAt(lines) ==
    {k \in 1..Len(lines) :
        Contains(lines[k], PriorAnchor) \/ Contains(lines[k], LoggerAnchor)}

\* the output ends in a newline: it has as many lines as newline characters
C7_LineCount ==
    pc = "done" =>
        LET lines == InputLines
        IN /\ NLCount(outFile) =
                  Len(lines) + FragmentLines(lines) + Cardinality(AppendedAt(lines))
           /\ KeepsLines(lines, outFile)

\* C7 as the specification states it: only the fragments' lines are added
C7_OnlyFragmentLines ==
    pc = "done" =>
        LET lines == InputLines
        IN /\ NLCount(outFile) = Len(lines) + FragmentLines(lines)
           /\ KeepsLines(lines, outFile)

C7_Witness ==
    /\ pc = "done"
    /\ Len(taxonList) = 2
    /\ Cardinality(AppendedAt(InputLines)) = 2
    /\ FragmentLines(InputLines) > 0
    /\ NLCount(outFile) = Len(InputLines) + FragmentLines(InputLines) + 2

(***************************************************************************)
(* C8.  At a line holding the compound-prior tag the output gets the       *)
(* line's text, a newline, the prior fragments (so they start on the next  *)
(* output line) and the closing newline; at a line holding the logger tag  *)
(* and not the compound-prior tag, the same with the logger fragments; at  *)
(* a line holding the run-closing tag and neither of the other two, the    *)
(* operator fragments, then the line's text and the closing newline.       *)
(***************************************************************************)
C8_Step ==
    LoopStep =>
        LET line == xmlContentsList[i]
        IN /\ Contains(line, PriorAnchor) =>
                Written = line \o <<NL>> \o PriorNewLine \o <<NL>>
           /\ (Contains(line, LoggerAnchor) /\ ~Contains(line, PriorAnchor)) =>
                Written = line \o <<NL>> \o LoggerNewLine \o <<NL>>
           /\ AnchorKinds(line) = {"operator"} =>
                Written = OperatorNewLine \o line \o <<NL>>

C8_Placement == [][C8_Step]_vars

\* C8 as the specification states it, for the lines that hold one anchor:
\* the fragments follow the line's text on the same output line
C8_SameLineStep ==
    LoopStep =>
        LET line == xmlContentsList[i]
        IN /\ AnchorKinds(line) = {"prior"} => Written = line \o PriorNewLine \o <<NL>>
           /\ AnchorKinds(line) = {"logger"} => Written = line \o LoggerNewLine \o <<NL>>
           /\ AnchorKinds(line) = {"operator"} => Written = OperatorNewLine \o line \o <<NL>>

C8_SameLine == [][C8_SameLineStep]_vars

C8_Witness ==
    /\ pc = "done"
    /\ Len(taxonList) = 2
    /\ \A kind \in Kinds : \E k \in 1..Len(xmlContentsList) :
          AnchorKinds(xmlContentsList[k]) = {kind}
    /\ \E k \in 1..Len(OutputLines) :
          /\ k < Len(OutputLines)
          /\ OutputLines[k] = <<" ", PriorAnchor>>
          /\ OutputLines[k+1][1] = PriorIdOpen

(***************************************************************************)
(* C9.  For every taxon the logger fragment refers to the id of the        *)
(* taxon's prior fragment, the operator fragment refers to the id of the   *)
(* taxon set declared in the prior fragment, and the tree references of    *)
(* the prior and of the operator both name the tree id of the input.       *)
(***************************************************************************)
C9_ReferencesResolve ==
    pc = "done" =>
        \A k \in 1..Len(taxonList) :
            LET prior == PriorFragment(taxonList[k])
                logger == LoggerFragment(taxonList[k])
                operator == OperatorFragment(taxonList[k])
            IN /\ AttrValues(logger, LogRefOpen) = AttrValues(prior, PriorIdOpen)
               /\ AttrValues(operator, TaxonSetRefOpen) = AttrValues(prior, TaxonSetIdOpen)
               /\ AttrValues(prior, PriorTreeRefOpen) = << <<treeID>> >>
               /\ AttrValues(operator, OperatorTreeRefOpen) = << <<treeID>> >>

(***************************************************************************)
(* C10.  The date section used is the one of the direction asked for:      *)
(* the text between the first marker of that direction and the next "<",   *)
(* without its leading white space.  When the input has no marker of that  *)
(* direction, the run never gets to the taxa, writes nothing, and, unless  *)
(* an earlier check failed, ends in the no-dated-sequences error.          *)
(***************************************************************************)
\* the text between the first marker and the next "<", read off the input
SectionOf(marker) ==
    LET m == Least(Positions(fs.inputText, marker))
        lt == Least({e \in (m+1)..Len(fs.inputText) : fs.inputText[e] = LessThan})
        first == Least({e \in (m+1)..lt : fs.inputText[e] \notin SpaceAtoms})
    IN SubSeq(fs.inputText, first, lt - 1)

C10_Direction ==
    /\ pc \in {"taxa", "filter", "split", "loop", "done"} =>
          /\ Contains(fs.inputText, AskedMarker)
          /\ dateSection = SectionOf(AskedMarker)
    /\ ~Contains(fs.inputText, AskedMarker) =>
          /\ pc \in {"parse", "extension", "read", "tree", "dates", "fatal"}
          /\ outFile = <<>>
          /\ (pc = "fatal" /\ GoodUsage /\ GoodExtension /\ fs.inputReadable /\ HasTree) =>
                message = DatesMessage

C10_Witness ==
    /\ pc = "fatal"
    /\ message = DatesMessage
    /\ args.timeDirection = "past"
    /\ Contains(fs.inputText, BackwardMarker)
    /\ ~Contains(fs.inputText, ForwardMarker)
    /\ outFile = <<>>

====
